---- MODULE Spec2Model ----
(***************************************************************************)
(* Model of mp3fs's MP3 encoder (src/src/codecs/mp3_encoder.cc): the ID3   *)
(* tag set it builds, its size estimate, and the sequence of writes it     *)
(* makes into the output Buffer while a file is transcoded.                *)
(*                                                                         *)
(* Bytes are not enumerated one by one.  A byte string is a sequence of    *)
(* runs [src, from, len]: len consecutive bytes of the byte source src,    *)
(* starting at its index from.  The sources are                            *)
(*   "tag24"   the rendered ID3v2 tag                                      *)
(*   "tag1"    the rendered 128-byte ID3v1 tag                             *)
(*   "mp3"     the encoder's output stream (LAME), in output order         *)
(*   "lametag" the VBR summary frame lame_get_lametag_frame fills in       *)
(*   "zero"    a zero byte (value-initialised vector storage, padding)     *)
(* Two byte strings are equal iff their normal forms (Norm) are equal.     *)
(***************************************************************************)
EXTENDS Integers, Sequences, FiniteSets, TLC

\* ------------------------------------------------------------ constants

\* mp3_encoder.cc:42
kMaxVbrFrameSize == 2880
\* mp3_encoder.cc:44
kMillisPerSec == 1000
\* mp3_encoder.cc:47
kBufferSlop == 7200
\* mp3_encoder.cc:256
extra_padding == 12
\* mp3_encoder.cc:295
conversion_factor == 144000
\* length of an ID3v1 tag (mp3_encoder.cc:244-245 and 268)
kId3v1TagLength == 128
\* PCM samples in one MPEG-1 Layer III frame (mp3_encoder.cc:285)
kSamplesPerFrame == 1152
\* the encoder delay LAME adds before the end padding
kEncoderDelay == 576
\* size of an ID3v2 tag header and of an ID3v2 frame header
kId3v2HeaderSize == 10

\* ------------------------------------------------------------ bounds

\* PCM blocks handed to encode_pcm_data in one transcode
MaxBlocks == 2
\* set_text_tag calls made by the decoder for one file
MaxTagCalls == 2

\* ------------------------------------------------------------ byte strings

Seg(src, from, len) == [src |-> src, from |-> from, len |-> len]

\* n bytes of the byte source src, from its first byte
Bytes(src, n) == IF n > 0 THEN <<Seg(src, 0, n)>> ELSE <<>>

\* std::vector<uint8_t>(n): n value-initialised (zero) bytes
Zeros(n) == Bytes("zero", n)

RECURSIVE SegLen(_)
SegLen(s) == IF s = <<>> THEN 0 ELSE Head(s).len + SegLen(Tail(s))

\* run b continues run a
Joins(a, b) == a.src = b.src /\ (a.src = "zero" \/ b.from = a.from + a.len)

RECURSIVE Norm(_)
Norm(s) ==
    IF s = <<>> THEN <<>>
    ELSE IF Head(s).len = 0 THEN Norm(Tail(s))
    ELSE LET r == Norm(Tail(s)) IN
         IF r # <<>> /\ Joins(Head(s), Head(r))
         THEN <<Seg(Head(s).src, Head(s).from, Head(s).len + Head(r).len)>>
              \o Tail(r)
         ELSE <<Head(s)>> \o r

\* the bytes of s from offset n on
RECURSIVE Drop(_, _)
Drop(s, n) ==
    IF n <= 0 \/ s = <<>> THEN s
    ELSE IF Head(s).len <= n THEN Drop(Tail(s), n - Head(s).len)
    ELSE <<Seg(Head(s).src,
               IF Head(s).src = "zero" THEN 0 ELSE Head(s).from + n,
               Head(s).len - n)>> \o Tail(s)

\* the first n bytes of s
RECURSIVE Take(_, _)
Take(s, n) ==
    IF n <= 0 \/ s = <<>> THEN <<>>
    ELSE IF Head(s).len <= n THEN <<Head(s)>> \o Take(Tail(s), n - Head(s).len)
    ELSE <<Seg(Head(s).src, Head(s).from, n)>>

\* bytes [a, b) of s
Slice(s, a, b) == Norm(Take(Drop(s, a), b - a))

\* ------------------------------------------------------------ Buffer
\* The Buffer class (buffer.h) is not part of the sources at hand; it is
\* modelled from the specification's description of it: one contiguous
\* byte sequence, data, of current length L = SegLen(data), written by
\* appending and by patch writes at absolute offsets, and a target length
\* T.  pos is the highest byte written by append; reserve is the number of
\* bytes the end-relative patch write has placed at the end of the target.

EmptyBuffer == [data |-> <<>>, pos |-> 0, T |-> 0, reserve |-> 0]

\* bytes written into the contiguous sequence d at the absolute offset at:
\* a gap between the end of d and at is pre-allocated as filler (zero
\* bytes), what lay in [at, at + len(bytes)) is overwritten, what lies
\* beyond stays
Overwrite(d, at, bytes) ==
    Norm(Take(d, at) \o Zeros(at - SegLen(d)) \o bytes
         \o Drop(d, at + SegLen(bytes)))

\* append(bytes): the bytes go after the bytes appended before.  With
\* extend_buffer the append belongs to a finalization, which fixes the
\* target length to the bytes appended plus the bytes reserved at the end
write(b, data, extend_buffer) ==
    LET end == b.pos + SegLen(data) IN
    [b EXCEPT !.data = Overwrite(@, b.pos, data),
              !.pos = end,
              !.T = IF extend_buffer THEN end + b.reserve ELSE @]

\* end-relative patch write: data is written at the absolute offset given,
\* as the last bytes of the target length, T = offset + len(data); it
\* extends the sequence with filler when it lands beyond the current end
write_end(b, data, offset) ==
    [b EXCEPT !.data = Overwrite(@, offset, data),
              !.T = offset + SegLen(data),
              !.reserve = SegLen(data)]

\* overwrite at an absolute offset; a write past the allocated bytes
\* reallocates and never drops data
write_to(b, data, location) ==
    [b EXCEPT !.data = Overwrite(@, location, data)]

\* truncate(): sets L = T exactly, discarding any slack past T
truncate(b) ==
    [b EXCEPT !.data = Norm(Take(@, b.T) \o Zeros(b.T - SegLen(@))),
              !.pos = IF @ > b.T THEN b.T ELSE @]

\* extend(): pads with zero bytes until L = T
extend(b) == [b EXCEPT !.data = Norm(@ \o Zeros(b.T - SegLen(@)))]

\* L: the current length of the byte sequence
size(b) == SegLen(b.data)

\* the byte sequence [0, L) a reader of the Buffer sees
contents(b) == Norm(b.data)

read(b, offset, length) == Slice(contents(b), offset, offset + length)

\* ------------------------------------------------------------ text
\* A string is a sequence of numbers: the bytes of a char* (UTF-8 or
\* Latin-1) or the code points of an id3_ucs4_t*.

Slash == <<47>>
\* PACKAGE_NAME, "mp3fs"
PACKAGE_NAME == <<109, 112, 51, 102, 115>>

\* id3_utf8_ucs4duplicate: decode UTF-8 (one- and two-byte sequences)
RECURSIVE id3_utf8_ucs4duplicate(_)
id3_utf8_ucs4duplicate(u) ==
    IF u = <<>> THEN <<>>
    ELSE IF Head(u) >= 192 /\ Head(u) < 224 /\ Len(u) >= 2
    THEN <<(Head(u) - 192) * 64 + (u[2] % 64)>>
         \o id3_utf8_ucs4duplicate(Tail(Tail(u)))
    ELSE <<Head(u)>> \o id3_utf8_ucs4duplicate(Tail(u))

\* id3_ucs4_latin1duplicate: a code point Latin-1 cannot hold becomes the
\* replacement character 0xB7
id3_ucs4_latin1duplicate(ucs4) ==
    [i \in 1..Len(ucs4) |-> IF ucs4[i] > 255 THEN 183 ELSE ucs4[i]]

\* id3_latin1_ucs4duplicate: every byte is the code point of its own value
id3_latin1_ucs4duplicate(lat) == [i \in 1..Len(lat) |-> lat[i] % 256]

\* std::ostream << uint64_t: the decimal digits, most significant first
RECURSIVE Decimal(_)
Decimal(n) ==
    IF n < 10 THEN <<48 + n>> ELSE Decimal(n \div 10) \o <<48 + (n % 10)>>

\* the bytes id3_render_string writes for a code point in UTF-8
utf8_size(c) ==
    IF c < 128 THEN 1 ELSE IF c < 2048 THEN 2 ELSE IF c < 65536 THEN 3 ELSE 4

\* ------------------------------------------------------------ ID3 tag set
\* id3tag_ is a function from the IDs of the attached frames to the list of
\* strings each frame holds. Under "APIC" the list holds, for each picture
\* frame attached, four entries: the MIME type, the picture type (a string
\* of one number), the description and the picture data.

kMetatagMap ==
    [METATAG_TITLE |-> "TIT2", METATAG_ARTIST |-> "TPE1",
     METATAG_ALBUM |-> "TALB", METATAG_GENRE |-> "TCON",
     METATAG_DATE |-> "TDRC", METATAG_COMPOSER |-> "TCOM",
     METATAG_PERFORMER |-> "TOPE", METATAG_COPYRIGHT |-> "TCOP",
     METATAG_ENCODEDBY |-> "TENC", METATAG_ORGANIZATION |-> "TPUB",
     METATAG_CONDUCTOR |-> "TPE3", METATAG_ALBUMARTIST |-> "TPE2",
     METATAG_ENCODER |-> "TSSE", METATAG_TRACKLENGTH |-> "TLEN"]

NumberKeys == {"METATAG_TRACKNUMBER", "METATAG_DISCNUMBER"}
TotalKeys == {"METATAG_TRACKTOTAL", "METATAG_DISCTOTAL"}
TrackKeys == {"METATAG_TRACKNUMBER", "METATAG_TRACKTOTAL"}

\* the combined "number/total" string: tempstr << value << lat for a
\* number, tempstr << lat << "/" << value for a total
tempstr_wrong(key, value, lat) ==
    IF key \in NumberKeys THEN lat \o value ELSE lat \o Slash \o value

tempstr(key, value, lat) ==
    IF key \in NumberKeys THEN value \o lat ELSE lat \o Slash \o value

\* (callers of the model never pass value == nullptr, the early return)
set_text_tag(tag, key, value) ==
    IF key \in DOMAIN kMetatagMap THEN
        LET id == kMetatagMap[key]
            old == IF id \in DOMAIN tag THEN tag[id] ELSE <<>>
        IN  (id :> Append(old, id3_utf8_ucs4duplicate(value))) @@ tag
    ELSE IF key \in NumberKeys \cup TotalKeys THEN
        LET tagname == IF key \in TrackKeys THEN "TRCK" ELSE "TPOS"
            lat == IF tagname \in DOMAIN tag
                   THEN id3_ucs4_latin1duplicate(tag[tagname][1])
                   ELSE <<>>
        IN  (tagname :> <<id3_latin1_ucs4duplicate(tempstr(key, value, lat))>>)
            @@ tag
    ELSE tag

\* set_picture_tag attaches a new APIC frame each time it is called
set_picture_tag(tag, mime_type, type, description, data) ==
    LET old == IF "APIC" \in DOMAIN tag THEN tag["APIC"] ELSE <<>>
    IN  ("APIC" :> old \o <<mime_type, <<type>>,
                             id3_utf8_ucs4duplicate(description), data>>)
        @@ tag

\* the bytes of a string rendered in UTF-8, without terminator
RECURSIVE Utf8Size(_)
Utf8Size(ucs4) ==
    IF ucs4 = <<>> THEN 0 ELSE utf8_size(Head(ucs4)) + Utf8Size(Tail(ucs4))

\* id3_tag_render(id3tag_, nullptr) for a tag without padding: the size of
\* the rendered ID3v2 tag, a header and then per frame a header, the
\* encoding byte and the terminated strings
RECURSIVE StringsSize(_)
StringsSize(strs) ==
    IF strs = <<>> THEN 0
    ELSE Utf8Size(Head(strs)) + 1 + StringsSize(Tail(strs))

\* the APIC frames: per frame a header, the encoding byte, the terminated
\* MIME type, the picture type byte, the terminated description and the
\* picture data
RECURSIVE PicturesSize(_)
PicturesSize(fields) ==
    IF fields = <<>> THEN 0
    ELSE kId3v2HeaderSize + 1 + (Len(fields[1]) + 1) + 1
         + (Utf8Size(fields[3]) + 1) + Len(fields[4])
         + PicturesSize(SubSeq(fields, 5, Len(fields)))

RECURSIVE FramesSize(_, _)
FramesSize(tag, ids) ==
    IF ids = {} THEN 0
    ELSE LET id == CHOOSE i \in ids : TRUE IN
         (IF id = "APIC" THEN PicturesSize(tag[id])
          ELSE kId3v2HeaderSize + 1 + StringsSize(tag[id]))
         + FramesSize(tag, ids \ {id})

id3_tag_render(tag) == kId3v2HeaderSize + FramesSize(tag, DOMAIN tag)

\* ------------------------------------------------------------ LAME
\* lame_encoder_ is LAME's settings record.

\* A float is the number its 32 bits spell in IEEE-754 single precision.

\* the float 1.0
FloatOne == 1065353216

\* the gains the table below covers, in whole dB
MinGainDb == -30
MaxGainDb == 30

\* static_cast<float>(pow(10.0, dbgain / 20)) for dbgain = MinGainDb, ...,
\* MaxGainDb: the division is a real one (10 dB gives 3.1622777, -6 dB
\* 0.50118721), the result is rounded to single precision
pow_float_table ==
    <<
      1023510242, 1024546017, 1025708176, 1027012139, 1028475210,
      1030116803, 1031878742, 1032912063, 1034071469, 1035372344,
      1036831949, 1038469653, 1040247289, 1041278163, 1042434822,
      1043732615, 1045188763, 1046822587, 1048615884, 1049644316,
      1050798235, 1052092954, 1053545652, 1055175606, 1056984526,
      1058010522, 1059161708, 1060453359, 1061902616, 1063528709,
      1065353216, 1066376781, 1067525240, 1068813832, 1070259656,
      1071881897, 1073702081, 1074743093, 1075888831, 1077174371,
      1078616770, 1080235168, 1082051041, 1083109458, 1084252482,
      1085534976, 1086973959, 1088588523, 1090400094, 1091475875,
      1092616192, 1093895648, 1095331222, 1096941962, 1098749242,
      1099842346, 1100979961, 1102256386, 1103688559, 1105295484,
      1107098482
    >>

pow_float(dbgain) == pow_float_table[dbgain - MinGainDb + 1]

\* lame_init(): nothing known about the stream, samples are not scaled
lame_init ==
    [num_samples |-> 0, in_samplerate |-> 44100, num_channels |-> 2,
     out_samplerate |-> 0, scale |-> FloatOne]

\* lame_set_scale(lame_encoder_, pow(10.0, dbgain / 20))
set_gain_db(l, dbgain) == [l EXCEPT !.scale = pow_float(dbgain)]

\* the MPEG-1 output rate lame_init_params picks for an input rate
out_samplerate_for(rate) ==
    IF rate <= 32000 THEN 32000 ELSE IF rate <= 44100 THEN 44100 ELSE 48000

\* lame_init_params: -1 for a stream LAME cannot encode, else 0 with the
\* output sample rate chosen
lame_init_params(l) ==
    IF l.num_channels \notin {1, 2} \/ l.in_samplerate < 1
    THEN [rc |-> -1, lame |-> l]
    ELSE [rc |-> 0,
          lame |-> [l EXCEPT !.out_samplerate =
                                 out_samplerate_for(l.in_samplerate)]]

\* lame_get_totalframes: the frames LAME expects to write for num_samples
\* input samples, resampled to the output rate, with the encoder delay and
\* the padding to a whole frame added
lame_get_totalframes(l) ==
    LET same == l.in_samplerate = l.out_samplerate
        resampled == l.num_samples * l.out_samplerate
        whole == IF same THEN l.num_samples \div kSamplesPerFrame
                 ELSE (resampled \div l.in_samplerate) \div kSamplesPerFrame
        rest == IF same THEN l.num_samples - whole * kSamplesPerFrame
                ELSE (resampled + l.in_samplerate - 1) \div l.in_samplerate
                     - whole * kSamplesPerFrame
        delayed == rest + kEncoderDelay
        pad == kSamplesPerFrame - (delayed % kSamplesPerFrame)
        end_padding == IF pad < kEncoderDelay THEN pad + kSamplesPerFrame
                       ELSE pad
    IN  IF ~same /\ resampled = 0 THEN 0
        ELSE whole + (delayed + end_padding) \div kSamplesPerFrame

\* ------------------------------------------------------------ Mp3Encoder

\* static_cast<uint64_t>(a) * b / c: the 64-bit product divided, computed
\* without leaving the model checker's integer range
MulDiv(a, b, c) == (a \div c) * b + ((a % c) * b) \div c

calculate_size_out_rate(p, id3size, l) ==
    IF p.vbr # 0
    THEN id3size + kId3v1TagLength + kMaxVbrFrameSize
         + MulDiv(lame_get_totalframes(l) * conversion_factor, p.bitrate,
                  l.out_samplerate)
    ELSE id3size + kId3v1TagLength
         + MulDiv(lame_get_totalframes(l) * conversion_factor, p.bitrate,
                  l.out_samplerate)

calculate_size_in_rate(p, id3size, l) ==
    IF p.vbr # 0
    THEN id3size + kId3v1TagLength + kMaxVbrFrameSize
         + MulDiv(lame_get_totalframes(l) * conversion_factor, p.bitrate,
                  l.in_samplerate)
    ELSE id3size + kId3v1TagLength
         + MulDiv(lame_get_totalframes(l) * conversion_factor, p.bitrate,
                  l.in_samplerate)

calculate_size(p, id3size, l) ==
    IF p.vbr # 0
    THEN id3size + kId3v1TagLength + kMaxVbrFrameSize
         + MulDiv(lame_get_totalframes(l) * conversion_factor, p.bitrate,
                  l.in_samplerate)
    ELSE id3size + kId3v1TagLength
         + MulDiv(lame_get_totalframes(l) * conversion_factor, p.bitrate,
                  l.out_samplerate)

\* the result of a handler: its return value and what it leaves behind
set_stream_params_tag_first(tag, l, num_samples, sample_rate, channels) ==
    LET set == [l EXCEPT !.num_samples = num_samples,
                         !.in_samplerate = sample_rate,
                         !.num_channels = channels]
        init == lame_init_params(set)
        tagged == set_text_tag(tag, "METATAG_TRACKLENGTH",
                      Decimal((num_samples * kMillisPerSec) \div sample_rate))
    IN  IF init.rc = -1
        THEN [ret |-> -1, lame |-> init.lame, id3tag |-> tagged]
        ELSE [ret |-> 0, lame |-> init.lame, id3tag |-> tagged]

set_stream_params_divide_first(tag, l, num_samples, sample_rate, channels) ==
    LET set == [l EXCEPT !.num_samples = num_samples,
                         !.in_samplerate = sample_rate,
                         !.num_channels = channels]
        init == lame_init_params(set)
    IN  IF init.rc = -1
        THEN [ret |-> -1, lame |-> init.lame, id3tag |-> tag]
        ELSE [ret |-> 0, lame |-> init.lame,
              id3tag |-> set_text_tag(tag, "METATAG_TRACKLENGTH",
                  Decimal((num_samples \div sample_rate) * kMillisPerSec))]

set_stream_params(tag, l, num_samples, sample_rate, channels) ==
    LET set == [l EXCEPT !.num_samples = num_samples,
                         !.in_samplerate = sample_rate,
                         !.num_channels = channels]
        init == lame_init_params(set)
    IN  IF init.rc = -1
        THEN [ret |-> -1, lame |-> init.lame, id3tag |-> tag]
        ELSE [ret |-> 0, lame |-> init.lame,
              id3tag |-> set_text_tag(tag, "METATAG_TRACKLENGTH",
                  Decimal((num_samples * kMillisPerSec) \div sample_rate))]

\* render_tag: the ID3v2 tag goes first into the Buffer, the ID3v1 tag
\* kId3v1TagLength bytes before the end of a file of file_size bytes
render_tag_at_end(b, tag, l, p, file_size) ==
    LET id3size == id3_tag_render(tag) + extra_padding
        tag24 == Bytes("tag24", id3size)
        tag1 == Bytes("tag1", kId3v1TagLength)
        fs == IF file_size = 0 THEN calculate_size(p, id3size, l)
              ELSE file_size
    IN  [ret |-> 0, id3size |-> id3size,
         buffer |-> write_end(write(b, tag24, TRUE), tag1, fs),
         calls |-> <<"write", "write_end">>]

render_tag(b, tag, l, p, file_size) ==
    LET id3size == id3_tag_render(tag) + extra_padding
        tag24 == Bytes("tag24", id3size)
        tag1 == Bytes("tag1", kId3v1TagLength)
        fs == IF file_size = 0 THEN calculate_size(p, id3size, l)
              ELSE file_size
    IN  [ret |-> 0, id3size |-> id3size,
         buffer |-> write_end(write(b, tag24, TRUE), tag1,
                              fs - kId3v1TagLength),
         calls |-> <<"write", "write_end">>]

\* encode_pcm_data: len is what lame_encode_buffer_int returned and out the
\* bytes LAME has put out before
encode_pcm_data(b, out, len) ==
    IF len < 0
    THEN [ret |-> -1, buffer |-> b, calls |-> <<>>]
    ELSE [ret |-> 0,
          buffer |-> write(b, IF len > 0 THEN <<Seg("mp3", out, len)>>
                              ELSE <<>>, FALSE),
          calls |-> <<"write">>]

\* the vector tail after lame_get_lametag_frame: kMaxVbrFrameSize zero
\* bytes, the first vbr_tag_size of them filled in when the frame fits
lametag_tail(vbr_tag_size) ==
    IF vbr_tag_size > kMaxVbrFrameSize THEN Zeros(kMaxVbrFrameSize)
    ELSE Bytes("lametag", vbr_tag_size)
         \o Zeros(kMaxVbrFrameSize - vbr_tag_size)

NoPatch == <<>>

\* the Buffer call that settles the final length, by params.statcachesize
resize_call(p) == IF p.statcachesize > 0 THEN "truncate" ELSE "extend"

finish_resize_swapped(b, p) ==
    IF p.statcachesize > 0 THEN extend(b) ELSE truncate(b)

finish_resize(b, p) ==
    IF p.statcachesize > 0 THEN truncate(b) ELSE extend(b)

\* where the VBR tag is written: id3size bytes after the beginning
vbr_patch_offset_zero(id3size) == 0

vbr_patch_offset(id3size) == id3size

\* what encode_finish notes of its write_to: where it wrote, how many bytes,
\* the Buffer's bytes and their length before, and the size LAME gave
patch_record(b, tail, at, vbr_tag_size) ==
    <<[at |-> at, len |-> SegLen(tail), L |-> size(b),
       vbr_tag_size |-> vbr_tag_size, before |-> contents(b)]>>

\* encode_finish: len is what lame_encode_flush returned, vbr_tag_size what
\* lame_get_lametag_frame returned (read in VBR mode only)
encode_finish_patch_first(b, p, id3size, out, len, vbr_tag_size) ==
    IF len < 0
    THEN [ret |-> -1, buffer |-> b, calls |-> <<>>, patch |-> NoPatch]
    ELSE
    LET vbuffer == IF len > 0 THEN <<Seg("mp3", out, len)>> ELSE <<>>
        b1 == write(b, vbuffer, p.statcachesize > 0)
        tail == lametag_tail(vbr_tag_size)
        at == vbr_patch_offset(id3size)
    IN  IF p.vbr = 0
        THEN [ret |-> len, buffer |-> finish_resize(b1, p),
              calls |-> <<"write", resize_call(p)>>, patch |-> NoPatch]
        ELSE IF vbr_tag_size > kMaxVbrFrameSize
        THEN [ret |-> -1, buffer |-> b1, calls |-> <<"write">>,
              patch |-> NoPatch]
        ELSE [ret |-> len,
              buffer |-> finish_resize(write_to(b1, tail, at), p),
              calls |-> <<"write", "write_to", resize_call(p)>>,
              patch |-> patch_record(b1, tail, at, vbr_tag_size)]

encode_finish(b, p, id3size, out, len, vbr_tag_size) ==
    IF len < 0
    THEN [ret |-> -1, buffer |-> b, calls |-> <<>>, patch |-> NoPatch]
    ELSE
    LET vbuffer == IF len > 0 THEN <<Seg("mp3", out, len)>> ELSE <<>>
        b1 == write(b, vbuffer, p.statcachesize > 0)
        b2 == finish_resize(b1, p)
        tail == lametag_tail(vbr_tag_size)
        at == vbr_patch_offset(id3size)
    IN  IF p.vbr = 0
        THEN [ret |-> len, buffer |-> b2,
              calls |-> <<"write", resize_call(p)>>, patch |-> NoPatch]
        ELSE IF vbr_tag_size > kMaxVbrFrameSize
        THEN [ret |-> -1, buffer |-> b2,
              calls |-> <<"write", resize_call(p)>>, patch |-> NoPatch]
        ELSE [ret |-> len, buffer |-> write_to(b2, tail, at),
              calls |-> <<"write", resize_call(p), "write_to">>,
              patch |-> patch_record(b2, tail, at, vbr_tag_size)]

\* ------------------------------------------------------------ inputs

\* params: the mount's configuration
Params ==
    [vbr : {0, 1}, bitrate : {128}, statcachesize : {0, 500}]

\* the streams a decoder reports
NumSamples == {0, 1000}
SampleRates == {44100, 96000}
Channels == {2, 6}

\* the metadata a decoder passes on: "A" with an e-acute as title, track 3
\* of 12, disc 1 of 2
TagValue ==
    [METATAG_TITLE |-> <<65, 195, 169>>,
     METATAG_TRACKNUMBER |-> <<51>>, METATAG_TRACKTOTAL |-> <<49, 50>>,
     METATAG_DISCNUMBER |-> <<49>>, METATAG_DISCTOTAL |-> <<50>>]

\* the cover picture a decoder passes on: MIME type "image/png", type 3
\* (front cover), description "c", four bytes of data
Pictures ==
    {[mime_type |-> <<105, 109, 97, 103, 101, 47, 112, 110, 103>>,
      type |-> 3, description |-> <<99>>, data |-> <<137, 80, 78, 71>>]}

\* the ReplayGain values a decoder passes on, in dB
Gains == {-6, 0}

\* the numsamples of the PCM blocks a decoder hands over
BlockSizes == {4608}
\* what lame_encode_buffer_int can return
EncodeLens == {-1, 0, 835}
\* what lame_encode_flush can return
FlushLens == {-1, 0, 417}
\* what lame_get_lametag_frame can return
VbrTagSizes == {417, 2880, 2881}

\* the sizes the stats cache can hold for a file whose tag renders to
\* id3size bytes: those of a transcode that produced a flush's worth of audio
CachedSizes(id3size) ==
    {id3size + kId3v1TagLength + len : len \in {l \in FlushLens : l > 0}}

\* ------------------------------------------------------------ state

VARIABLES
    params,     \* the configuration (vbr, bitrate, statcachesize)
    phase,      \* where the transcode of this file stands
    lame,       \* lame_encoder_
    id3tag,     \* id3tag_
    id3size_,   \* id3size_
    buffer,     \* *buffer_
    produced,   \* bytes LAME has put out so far
    blocks,     \* PCM blocks encoded so far
    file_size,  \* the file_size render_tag was called with
    tagcalls,   \* the set_text_tag calls made so far, <<key, value>> each,
                \* and the set_picture_tag calls, <<"APIC", data>> each
    call,       \* the member function called last
    ret,        \* what it returned
    bufcalls,   \* the Buffer member functions it called, in order
    vbrpatch    \* the write_to of the VBR tag, once made

vars == <<params, phase, lame, id3tag, id3size_, buffer, produced, blocks,
          file_size, tagcalls, call, ret, bufcalls, vbrpatch>>

\* Mp3Encoder::Mp3Encoder on an empty Buffer
Init ==
    /\ params \in Params
    /\ phase = "Created"
    /\ lame = lame_init
    /\ id3tag = set_text_tag(<<>>, "METATAG_ENCODER", PACKAGE_NAME)
    /\ id3size_ = 0
    /\ buffer = EmptyBuffer
    /\ produced = 0
    /\ blocks = 0
    /\ file_size = 0
    /\ tagcalls = <<>>
    /\ call = "Mp3Encoder"
    /\ ret = 0
    /\ bufcalls = <<>>
    /\ vbrpatch = NoPatch

\* the decoder passes one metadata field on, each field once and all of
\* them before the tag is rendered
SetTextTag ==
    /\ phase \in {"Created", "Initialized"}
    /\ Len(tagcalls) < MaxTagCalls
    /\ \E key \in DOMAIN TagValue :
        /\ \A i \in 1..Len(tagcalls) : tagcalls[i][1] # key
        /\ id3tag' = set_text_tag(id3tag, key, TagValue[key])
        /\ tagcalls' = Append(tagcalls, <<key, TagValue[key]>>)
    /\ call' = "set_text_tag"
    /\ ret' = 0
    /\ bufcalls' = <<>>
    /\ UNCHANGED <<params, phase, lame, id3size_, buffer, produced, blocks,
                   file_size, vbrpatch>>

\* the decoder passes a picture on, before the tag is rendered
SetPictureTag ==
    /\ phase \in {"Created", "Initialized"}
    /\ Len(tagcalls) < MaxTagCalls
    /\ \E pic \in Pictures :
        /\ id3tag' = set_picture_tag(id3tag, pic.mime_type, pic.type,
                                      pic.description, pic.data)
        /\ tagcalls' = Append(tagcalls, <<"APIC", pic.data>>)
    /\ call' = "set_picture_tag"
    /\ ret' = 0
    /\ bufcalls' = <<>>
    /\ UNCHANGED <<params, phase, lame, id3size_, buffer, produced, blocks,
                   file_size, vbrpatch>>

\* the decoder passes the gain on, before any PCM data
SetGainDb ==
    /\ phase \in {"Created", "Initialized"}
    /\ \E dbgain \in Gains : lame' = set_gain_db(lame, dbgain)
    /\ call' = "set_gain_db"
    /\ ret' = 0
    /\ bufcalls' = <<>>
    /\ UNCHANGED <<params, phase, id3tag, id3size_, buffer, produced, blocks,
                   file_size, tagcalls, vbrpatch>>

SetStreamParams ==
    /\ phase = "Created"
    /\ \E n \in NumSamples, r \in SampleRates, c \in Channels :
        LET res == set_stream_params(id3tag, lame, n, r, c) IN
        /\ lame' = res.lame
        /\ id3tag' = res.id3tag
        /\ ret' = res.ret
        /\ phase' = IF res.ret = -1 THEN "Error" ELSE "Initialized"
    /\ call' = "set_stream_params"
    /\ bufcalls' = <<>>
    /\ UNCHANGED <<params, id3size_, buffer, produced, blocks, file_size,
                   tagcalls, vbrpatch>>

\* file_size is 0 or the size an earlier transcode of the file ended with
\* and the stats cache kept: its tag, the audio bytes it produced, the
\* ID3v1 tag
RenderTag ==
    /\ phase = "Initialized"
    /\ \E fs \in {0} \cup CachedSizes(id3_tag_render(id3tag) + extra_padding) :
        LET res == render_tag(buffer, id3tag, lame, params, fs) IN
        /\ file_size' = fs
        /\ id3size_' = res.id3size
        /\ buffer' = res.buffer
        /\ ret' = res.ret
        /\ bufcalls' = res.calls
    /\ phase' = "Tagged"
    /\ call' = "render_tag"
    /\ UNCHANGED <<params, lame, id3tag, produced, blocks, tagcalls,
                   vbrpatch>>

CalculateSize ==
    /\ phase \in {"Tagged", "Encoding", "Complete"}
    /\ call' = "calculate_size"
    /\ ret' = calculate_size(params, id3size_, lame)
    /\ bufcalls' = <<>>
    /\ UNCHANGED <<params, phase, lame, id3tag, id3size_, buffer, produced,
                   blocks, file_size, tagcalls, vbrpatch>>

EncodePcmData ==
    /\ phase \in {"Tagged", "Encoding"}
    /\ blocks < MaxBlocks
    /\ \E numsamples \in BlockSizes, len \in EncodeLens :
        /\ len <= (5 * numsamples) \div 4 + kBufferSlop
        /\ LET res == encode_pcm_data(buffer, produced, len) IN
            /\ buffer' = res.buffer
            /\ ret' = res.ret
            /\ bufcalls' = res.calls
            /\ phase' = IF res.ret = -1 THEN "Error" ELSE "Encoding"
            /\ produced' = IF res.ret = -1 THEN produced ELSE produced + len
    /\ blocks' = blocks + 1
    /\ call' = "encode_pcm_data"
    /\ UNCHANGED <<params, lame, id3tag, id3size_, file_size, tagcalls,
                   vbrpatch>>

EncodeFinish ==
    /\ phase \in {"Tagged", "Encoding"}
    /\ \E len \in FlushLens,
          vts \in IF params.vbr # 0 THEN VbrTagSizes ELSE {0} :
        /\ len <= kBufferSlop
        /\ LET res == encode_finish(buffer, params, id3size_, produced, len,
                                    vts) IN
            /\ buffer' = res.buffer
            /\ ret' = res.ret
            /\ bufcalls' = res.calls
            /\ vbrpatch' = res.patch
            /\ phase' = IF res.ret = -1 THEN "Error" ELSE "Complete"
            /\ produced' = IF len < 0 THEN produced ELSE produced + len
    /\ call' = "encode_finish"
    /\ UNCHANGED <<params, lame, id3tag, id3size_, blocks, file_size,
                   tagcalls>>

Next ==
    \/ SetTextTag
    \/ SetPictureTag
    \/ SetGainDb
    \/ SetStreamParams
    \/ RenderTag
    \/ CalculateSize
    \/ EncodePcmData
    \/ EncodeFinish

Spec == Init /\ [][Next]_vars

\* ------------------------------------------------------------ properties

\* the tag has been rendered into the Buffer
Rendered == id3size_ > 0

\* lame_init_params has accepted the stream
Accepted == lame.out_samplerate # 0

\* the size render_tag placed the ID3v1 tag by
PlacedSize ==
    IF file_size = 0 THEN calculate_size(params, id3size_, lame)
    ELSE file_size

HasCall(name) == \E i \in 1..Len(bufcalls) : bufcalls[i] = name

\* C1, as stated: in fixed bit-rate mode calculate_size() returns the tag
\* overhead plus N * 144000 * B / output_sample_rate with N the total source
\* sample count.
C1_SizeFromSampleCount ==
    (call = "calculate_size" /\ params.vbr = 0) =>
        ret = id3size_ + 128
              + MulDiv(lame.num_samples * 144000, params.bitrate,
                       lame.out_samplerate)

\* C1, amended: in fixed bit-rate mode calculate_size() returns the rendered
\* ID3v2 size plus 128 plus F * 144000 * B / output_sample_rate, where F is
\* the total frame count LAME reports (lame_get_totalframes), not the
\* sample count.
C1_SizeFromFrameCount ==
    (call = "calculate_size" /\ params.vbr = 0) =>
        ret = id3size_ + 128
              + (lame_get_totalframes(lame) * 144000 * params.bitrate)
                \div lame.out_samplerate

C1_Witness ==
    /\ call = "calculate_size"
    /\ params.vbr = 0
    /\ lame.in_samplerate # lame.out_samplerate
    /\ lame_get_totalframes(lame) > 0
    /\ lame_get_totalframes(lame) # lame.num_samples

\* C2, as stated: in variable bit-rate mode calculate_size() returns the
\* tag overhead plus 2880 plus N * 144000 * B / input_sample_rate, with N
\* the total source sample count.
C2_VbrFromSampleCount ==
    (call = "calculate_size" /\ params.vbr # 0) =>
        ret = id3size_ + 128 + 2880
              + MulDiv(lame.num_samples * 144000, params.bitrate,
                       lame.in_samplerate)

\* C2, amended: in variable bit-rate mode calculate_size() returns the tag
\* overhead plus 2880 plus F * 144000 * B / input_sample_rate, F being the
\* frame count LAME reports; it divides by the input rate where fixed mode
\* divides by the output rate, so with equal rates the variable estimate is
\* the fixed estimate plus exactly 2880.
C2_VbrEstimate ==
    (call = "calculate_size" /\ params.vbr # 0) =>
        /\ ret = id3size_ + 128 + 2880
                 + (lame_get_totalframes(lame) * 144000 * params.bitrate)
                   \div lame.in_samplerate
        /\ lame.in_samplerate = lame.out_samplerate =>
             ret = calculate_size([params EXCEPT !.vbr = 0], id3size_, lame)
                   + 2880

C2_Witness ==
    /\ call = "calculate_size"
    /\ params.vbr # 0
    /\ lame.in_samplerate # lame.out_samplerate
    /\ lame_get_totalframes(lame) > 0

\* the number a string of decimal digits denotes
RECURSIVE DecimalValue(_)
DecimalValue(str) ==
    IF str = <<>> THEN 0
    ELSE DecimalValue(SubSeq(str, 1, Len(str) - 1)) * 10
         + (str[Len(str)] - 48)

IsDecimal(str) ==
    /\ Len(str) >= 1
    /\ \A i \in 1..Len(str) : str[i] \in 48..57
    /\ Len(str) > 1 => str[1] # 48

\* C3: for every stream set_stream_params accepted, the TLEN frame holds
\* the decimal rendering of num_samples * 1000 / sample_rate, the division
\* applied after the multiplication.
C3_TrackLength ==
    Accepted =>
        /\ "TLEN" \in DOMAIN id3tag
        /\ Len(id3tag["TLEN"]) = 1
        /\ IsDecimal(id3tag["TLEN"][1])
        /\ DecimalValue(id3tag["TLEN"][1])
             = (lame.num_samples * 1000) \div lame.in_samplerate

C3_Witness ==
    /\ Accepted
    /\ call = "set_stream_params"
    /\ Len(id3tag["TLEN"][1]) = 2
    /\ (lame.num_samples * 1000) % lame.in_samplerate # 0
    /\ lame.num_samples \div lame.in_samplerate = 0

Count(key) == Cardinality({i \in 1..Len(tagcalls) : tagcalls[i][1] = key})

ValueOf(key) ==
    tagcalls[CHOOSE i \in 1..Len(tagcalls) : tagcalls[i][1] = key][2]

Merged(number, total, frame) ==
    (Count(number) = 1 /\ Count(total) = 1) =>
        /\ frame \in DOMAIN id3tag
        /\ id3tag[frame] = <<ValueOf(number) \o <<47>> \o ValueOf(total)>>

\* C5: once set_text_tag has been called once with the track (disc) number
\* and once with the track (disc) total, in either order, the single TRCK
\* (TPOS) value is number, "/", total.
C5_NumberSlashTotal ==
    /\ Merged("METATAG_TRACKNUMBER", "METATAG_TRACKTOTAL", "TRCK")
    /\ Merged("METATAG_DISCNUMBER", "METATAG_DISCTOTAL", "TPOS")

C5_Witness ==
    /\ Len(tagcalls) >= 2
    /\ tagcalls[1][1] = "METATAG_TRACKTOTAL"
    /\ tagcalls[2][1] = "METATAG_TRACKNUMBER"
    /\ id3tag["TRCK"] = <<<<51, 47, 49, 50>>>>

\* C6: in every state after render_tag, bytes [0, id3size_) of the Buffer
\* are the ID3v2 tag render_tag rendered, and read(0, 10) returns its first
\* 10 bytes.
C6_TagStaysFirst ==
    Rendered =>
        /\ Slice(contents(buffer), 0, id3size_) = Bytes("tag24", id3size_)
        /\ read(buffer, 0, 10) = Bytes("tag24", 10)

C6_Witness ==
    /\ phase = "Complete"
    /\ params.vbr # 0
    /\ vbrpatch # NoPatch
    /\ produced > 0
    /\ Slice(contents(buffer), 0, id3size_) = Bytes("tag24", id3size_)

\* the ID3v1 tag is the last 128 bytes of the Buffer
TrailerLast ==
    Slice(contents(buffer), size(buffer) - 128, size(buffer))
        = Bytes("tag1", 128)

\* some byte of the ID3v1 tag is in the Buffer
TrailerIn ==
    \E i \in 1..Len(contents(buffer)) : contents(buffer)[i].src = "tag1"

TrailerUntouched ==
    /\ id3size_ + produced <= PlacedSize - 128
    /\ params.statcachesize > 0 => id3size_ + produced + 128 = PlacedSize
    /\ params.vbr # 0 => id3size_ + kMaxVbrFrameSize <= PlacedSize - 128

FinishCallsPatchFirst ==
    <<"write">> \o (IF params.vbr # 0 THEN <<"write_to">> ELSE <<>>)
    \o <<resize_call(params)>>

\* C8, as stated: encode_finish appends the flushed bytes, then (VBR only)
\* patches the header via write_to, and only then truncates or extends.
C8_PatchBeforeResize ==
    (call = "encode_finish" /\ ret # -1) => bufcalls = FinishCallsPatchFirst

\* C8, amended: encode_finish appends the flushed bytes first, then
\* truncates (statcachesize > 0) or extends the Buffer, and only then (VBR
\* only) overwrites the reserved header region via write_to; write_to is
\* never applied before truncate()/extend().
C8_ResizeBeforePatch ==
    (call = "encode_finish" /\ ret # -1) =>
        bufcalls = <<"write", resize_call(params)>>
                   \o (IF params.vbr # 0 THEN <<"write_to">> ELSE <<>>)

C8_Witness ==
    /\ call = "encode_finish"
    /\ ret > 0
    /\ params.vbr # 0
    /\ bufcalls = <<"write", "truncate", "write_to">>

\* C9: the write_to of the VBR tag starts at id3size_, lies within the
\* Buffer's length L at the time of the call, covers no more than the
\* vbr_tag_size bytes LAME returned, and leaves every byte outside
\* [id3size_, id3size_ + vbr_tag_size) as it was.
C9_PatchWithinHeaderRegion ==
    vbrpatch # NoPatch =>
        LET p == vbrpatch[1]
            stop == p.at + p.vbr_tag_size
            after == contents(buffer) IN
        /\ p.at = id3size_
        /\ p.at + p.len <= p.L
        /\ p.len <= p.vbr_tag_size
        /\ Slice(after, 0, p.at) = Slice(p.before, 0, p.at)
        /\ Norm(Drop(after, stop)) = Norm(Drop(p.before, stop))

\* C10, as stated: whenever set_stream_params, encode_pcm_data or
\* encode_finish returns -1 the Buffer and the tag set are as they were
\* before the call, and a call that succeeds never returns -1.
C10_FailureLeavesNoTrace ==
    [][/\ (call' \in {"set_stream_params", "encode_pcm_data",
                      "encode_finish"} /\ ret' = -1) =>
              (buffer' = buffer /\ id3tag' = id3tag)
       /\ phase' # "Error" => ret' # -1]_vars

\* C10, amended: whenever set_stream_params or encode_pcm_data returns -1,
\* or encode_finish returns -1 because the flush failed, the Buffer and the
\* tag set are as they were before the call.  An encode_finish that returns
\* -1 because the VBR tag is larger than kMaxVbrFrameSize leaves the tag
\* set alone but has already appended the flushed bytes and truncated or
\* extended the Buffer.  A call that succeeds never returns -1.
C10_FailureAfterFlushLeavesTrace ==
    [][/\ (call' \in {"set_stream_params", "encode_pcm_data"} /\ ret' = -1)
              => (buffer' = buffer /\ id3tag' = id3tag)
       /\ (call' = "encode_finish" /\ ret' = -1) =>
              /\ id3tag' = id3tag
              /\ \/ buffer' = buffer /\ bufcalls' = <<>>
                 \/ /\ params.vbr # 0
                    /\ bufcalls' = <<"write", resize_call(params)>>
                    /\ buffer' = finish_resize(
                           write(buffer,
                                 IF produced' > produced
                                 THEN <<Seg("mp3", produced,
                                            produced' - produced)>>
                                 ELSE <<>>,
                                 params.statcachesize > 0), params)
       /\ phase' # "Error" => ret' # -1]_vars

C10_Witness ==
    /\ phase = "Error"
    /\ call = "encode_finish"
    /\ ret = -1
    /\ params.vbr # 0
    /\ produced > 0
    /\ bufcalls = <<"write", resize_call(params)>>
====
